---- MODULE Spec2Model ----
(***************************************************************************)
(* Model of src/msg.rs: the JSON-RPC message model (Message, Request,      *)
(* Response, Notification, Params, Context), its serde encoding and        *)
(* untagged decoding, the Content-Length framing reader and writer, and    *)
(* the method-checked extraction helpers.                                  *)
(*                                                                         *)
(* Representation.  A byte is an integer in 0..255.  A Rust String is the  *)
(* sequence of its UTF-8 bytes.  An integer (i32, usize, a JSON number) is *)
(* its canonical decimal numeral [neg, d]: a sign and the ASCII digits     *)
(* without leading zeros, so that the i32 and usize range checks are exact *)
(* beyond the model checker's own integer range.  JSON values are the      *)
(* tagged records JNull, JBool, JNum, JStr and JObj; an object keeps its   *)
(* members in order as a sequence of [k, v] records.  Arrays and           *)
(* fractional numbers lie outside the modelled domain: the parser rejects  *)
(* them and no modelled input contains them.                               *)
(***************************************************************************)
EXTENDS Integers, Sequences, FiniteSets, TLC

VARIABLES
  obuf,      \* sink: bytes accepted by the sink and not yet flushed
  wire,      \* the byte stream between the writer and the reader
  closed,    \* the writing end is closed: the reader sees end-of-stream after wire
  pos,       \* reader: number of bytes of wire consumed so far
  wlog,      \* one record per Message::write call, in call order
  rlog,      \* one record per Message::read call, in call order
  fed,       \* the chunks a peer put on wire directly, in order (indices into Chunks)
  doc,       \* decoder bench: the JSON object under construction (its members)
  dres,      \* decoder bench: outcome of the last decode of doc
  subject,   \* dispatcher: the Request or Notification being dispatched
  xlog       \* dispatcher: one record per extract call, in call order

vars == <<obuf, wire, closed, pos, wlog, rlog, fed, doc, dres, subject, xlog>>

-----------------------------------------------------------------------------
(* Option<T> *)

None == [some |-> FALSE]
Some(x) == [some |-> TRUE, v |-> x]

-----------------------------------------------------------------------------
(* Byte strings used by the program: field names (the serde names of the   *)
(* struct fields), the envelope constant and the framing literals.         *)

K_jsonrpc == <<106, 115, 111, 110, 114, 112, 99>>
V_2_0 == <<50, 46, 48>>
K_id == <<105, 100>>
K_method == <<109, 101, 116, 104, 111, 100>>
K_params == <<112, 97, 114, 97, 109, 115>>
K_uri == <<117, 114, 105>>
K_context == <<99, 111, 110, 116, 101, 120, 116>>
K_result == <<114, 101, 115, 117, 108, 116>>
K_error == <<101, 114, 114, 111, 114>>
K_code == <<99, 111, 100, 101>>
K_message == <<109, 101, 115, 115, 97, 103, 101>>
K_data == <<100, 97, 116, 97>>
K_line == <<108, 105, 110, 101>>
K_prefix == <<112, 114, 101, 102, 105, 120>>
K_startPoint == <<115, 116, 97, 114, 116, 80, 111, 105, 110, 116>>
K_boundsStart == <<98, 111, 117, 110, 100, 115, 83, 116, 97, 114, 116>>
K_triggerKind == <<116, 114, 105, 103, 103, 101, 114, 75, 105, 110, 100>>
K_language_server_id ==
  <<108, 97, 110, 103, 117, 97, 103, 101, 45, 115, 101, 114, 118, 101, 114, 45, 105, 100>>
K_start == <<115, 116, 97, 114, 116>>
K_end == <<101, 110, 100>>
K_workspace_root == <<119, 111, 114, 107, 115, 112, 97, 99, 101, 45, 114, 111, 111, 116>>

\* "Content-Length", ": " and "\r\n"
ContentLength == <<67, 111, 110, 116, 101, 110, 116, 45, 76, 101, 110, 103, 116, 104>>
ColonSpace == <<58, 32>>
CRLF == <<13, 10>>

\* i32::MAX, -i32::MIN and u64::MAX (usize on a 64-bit target) as numerals
I32MaxDigits == <<50, 49, 52, 55, 52, 56, 51, 54, 52, 55>>
I32MinDigits == <<50, 49, 52, 55, 52, 56, 51, 54, 52, 56>>
UsizeMaxDigits ==
  <<49, 56, 52, 52, 54, 55, 52, 52, 48, 55, 51, 55, 48, 57, 53, 53, 49, 54, 49, 53>>

-----------------------------------------------------------------------------
(* Numerals *)

IsDigit(c) == c >= 48 /\ c <= 57

RECURSIVE DecNat(_)
\* Display of a non-negative size: the "{}" of msg.len()
DecNat(n) == IF n < 10 THEN <<48 + n>> ELSE DecNat(n \div 10) \o <<48 + (n % 10)>>

RECURSIVE LexLeq(_, _)
\* a <= b for digit strings of equal length
LexLeq(a, b) ==
  IF a = <<>> THEN TRUE
  ELSE IF a[1] # b[1] THEN a[1] < b[1]
  ELSE LexLeq(Tail(a), Tail(b))

\* a <= max for canonical digit strings (no leading zeros)
NumeralLeq(a, max) == Len(a) < Len(max) \/ (Len(a) = Len(max) /\ LexLeq(a, max))

Num(neg, d) == [neg |-> neg, d |-> d]

\* the value fits i32; "-0" is a float for serde_json and is no integer
FitsI32(n) ==
  IF n.neg THEN n.d # <<48>> /\ NumeralLeq(n.d, I32MinDigits)
  ELSE NumeralLeq(n.d, I32MaxDigits)

\* the value fits usize
FitsUsize(n) == ~n.neg /\ NumeralLeq(n.d, UsizeMaxDigits)

-----------------------------------------------------------------------------
(* JSON values (serde_json::Value, and serde's buffered Content) *)

JNull == [t |-> "null"]
JBool(b) == [t |-> "bool", b |-> b]
JNum(n) == [t |-> "num", n |-> n]
JStr(s) == [t |-> "str", s |-> s]
JObj(members) == [t |-> "obj", o |-> members]
Member(k, v) == [k |-> k, v |-> v]

-----------------------------------------------------------------------------
(* serde_json::to_string: compact JSON text *)

\* one byte of a string, escaped as serde_json escapes it (the domain holds
\* no control characters other than the five with a short escape)
EscapeByte(c) ==
  CASE c = 34 -> <<92, 34>>
    [] c = 92 -> <<92, 92>>
    [] c = 8  -> <<92, 98>>
    [] c = 9  -> <<92, 116>>
    [] c = 10 -> <<92, 110>>
    [] c = 12 -> <<92, 102>>
    [] c = 13 -> <<92, 114>>
    [] OTHER  -> <<c>>

RECURSIVE EscapeStr(_)
EscapeStr(s) == IF s = <<>> THEN <<>> ELSE EscapeByte(s[1]) \o EscapeStr(Tail(s))

QuoteStr(s) == <<34>> \o EscapeStr(s) \o <<34>>

NumText(n) == (IF n.neg THEN <<45>> ELSE <<>>) \o n.d

RECURSIVE JsonText(_), MembersText(_)
JsonText(v) ==
  CASE v.t = "null" -> <<110, 117, 108, 108>>
    [] v.t = "bool" -> IF v.b THEN <<116, 114, 117, 101>> ELSE <<102, 97, 108, 115, 101>>
    [] v.t = "num"  -> NumText(v.n)
    [] v.t = "str"  -> QuoteStr(v.s)
    [] v.t = "obj"  -> <<123>> \o MembersText(v.o) \o <<125>>

MembersText(ms) ==
  IF ms = <<>> THEN <<>>
  ELSE QuoteStr(ms[1].k) \o <<58>> \o JsonText(ms[1].v)
       \o (IF Len(ms) > 1 THEN <<44>> \o MembersText(Tail(ms)) ELSE <<>>)

-----------------------------------------------------------------------------
(* serde_json::from_str: a recursive-descent parser of the same grammar *)

Fail == [ok |-> FALSE]
Got(v, i) == [ok |-> TRUE, v |-> v, i |-> i]

IsWs(c) == c \in {32, 9, 10, 13}

RECURSIVE SkipWs(_, _)
SkipWs(b, i) == IF i <= Len(b) /\ IsWs(b[i]) THEN SkipWs(b, i + 1) ELSE i

\* b holds the literal lit at position i
HasAt(b, i, lit) == i + Len(lit) - 1 <= Len(b) /\ SubSeq(b, i, i + Len(lit) - 1) = lit

Unescape(c) ==
  CASE c = 98 -> 8 [] c = 116 -> 9 [] c = 110 -> 10 [] c = 102 -> 12 [] c = 114 -> 13
    [] OTHER -> c

RECURSIVE ParseStrBody(_, _, _)
\* the body of a string after its opening quote, up to the closing quote
ParseStrBody(b, i, acc) ==
  IF i > Len(b) THEN Fail
  ELSE IF b[i] = 34 THEN Got(acc, i + 1)
  ELSE IF b[i] = 92 THEN
         IF i + 1 <= Len(b) /\ b[i + 1] \in {34, 92, 47, 98, 102, 110, 114, 116}
         THEN ParseStrBody(b, i + 2, Append(acc, Unescape(b[i + 1])))
         ELSE Fail
  ELSE IF b[i] < 32 THEN Fail
  ELSE ParseStrBody(b, i + 1, Append(acc, b[i]))

RECURSIVE DigitsEnd(_, _)
DigitsEnd(b, i) == IF i <= Len(b) /\ IsDigit(b[i]) THEN DigitsEnd(b, i + 1) ELSE i

\* an integer: -? (0 | [1-9][0-9]*), not followed by a fraction or exponent
ParseNum(b, i) ==
  LET neg == b[i] = 45
      s == IF neg THEN i + 1 ELSE i
      e == DigitsEnd(b, s)
  IN IF e = s THEN Fail
     ELSE IF b[s] = 48 /\ e > s + 1 THEN Fail
     ELSE IF e <= Len(b) /\ b[e] \in {46, 101, 69} THEN Fail
     ELSE Got(JNum(Num(neg, SubSeq(b, s, e - 1))), e)

RECURSIVE ParseValue(_, _), ParseMembers(_, _, _)
ParseValue(b, i) ==
  IF i > Len(b) THEN Fail
  ELSE IF b[i] = 110 THEN (IF HasAt(b, i, <<110, 117, 108, 108>>) THEN Got(JNull, i + 4) ELSE Fail)
  ELSE IF b[i] = 116 THEN
         (IF HasAt(b, i, <<116, 114, 117, 101>>) THEN Got(JBool(TRUE), i + 4) ELSE Fail)
  ELSE IF b[i] = 102 THEN
         (IF HasAt(b, i, <<102, 97, 108, 115, 101>>) THEN Got(JBool(FALSE), i + 5) ELSE Fail)
  ELSE IF b[i] = 34 THEN
         LET r == ParseStrBody(b, i + 1, <<>>) IN IF r.ok THEN Got(JStr(r.v), r.i) ELSE Fail
  ELSE IF b[i] = 45 \/ IsDigit(b[i]) THEN ParseNum(b, i)
  ELSE IF b[i] = 123 THEN
         LET j == SkipWs(b, i + 1)
         IN IF j <= Len(b) /\ b[j] = 125 THEN Got(JObj(<<>>), j + 1)
            ELSE ParseMembers(b, j, <<>>)
  ELSE Fail

\* members of an object from position i (a key is expected), acc the members so far
ParseMembers(b, i, acc) ==
  IF i > Len(b) \/ b[i] # 34 THEN Fail
  ELSE LET k == ParseStrBody(b, i + 1, <<>>)
       IN IF ~k.ok THEN Fail
          ELSE LET c == SkipWs(b, k.i)
               IN IF c > Len(b) \/ b[c] # 58 THEN Fail
                  ELSE LET v == ParseValue(b, SkipWs(b, c + 1))
                       IN IF ~v.ok THEN Fail
                          ELSE LET e == SkipWs(b, v.i)
                                   ms == Append(acc, Member(k.v, v.v))
                               IN IF e > Len(b) THEN Fail
                                  ELSE IF b[e] = 125 THEN Got(JObj(ms), e + 1)
                                  ELSE IF b[e] = 44 THEN ParseMembers(b, SkipWs(b, e + 1), ms)
                                  ELSE Fail

\* the whole text is one JSON value (trailing characters are an error)
FromStr(b) ==
  LET r == ParseValue(b, SkipWs(b, 1))
  IN IF r.ok /\ SkipWs(b, r.i) = Len(b) + 1 THEN Got(r.v, r.i) ELSE Fail

-----------------------------------------------------------------------------
(* The message model in memory.                                            *)
(*   RequestId     [t |-> "I32", n |-> numeral] or [t |-> "String", s]      *)
(*   Context       a record with field variant and the variant's fields     *)
(*   Params        [uri, context, params]                                   *)
(*   ResponseError [code, message, data]                                    *)
(*   Message       a record with field kind: "Request", "Response" or       *)
(*                 "Notification", and the struct's fields                  *)

IdI32(n) == [t |-> "I32", n |-> n]
IdString(s) == [t |-> "String", s |-> s]

CompletionContext(line, prefix, sp, bs, tk) ==
  [variant |-> "CompletionContext", line |-> line, prefix |-> prefix,
   start_point |-> sp, bounds_start |-> bs, trigger_kind |-> tk]
ResolveContext(ls, s, e) ==
  [variant |-> "ResolveContext", language_server_id |-> ls, start |-> s, end |-> e]
WorkspaceContext(root) == [variant |-> "WorkspaceContext", workspace_root |-> root]
CommonContext(ls) == [variant |-> "CommonContext", language_server_id |-> ls]

Params(uri, context, params) == [uri |-> uri, context |-> context, params |-> params]
ResponseError(code, message, data) == [code |-> code, message |-> message, data |-> data]

Request(id, method, params) ==
  [kind |-> "Request", id |-> id, method |-> method, params |-> params]
Response(id, result, error) ==
  [kind |-> "Response", id |-> id, result |-> result, error |-> error]
Notification(method, params) ==
  [kind |-> "Notification", method |-> method, params |-> params]

-----------------------------------------------------------------------------
(* Serialize (the derived impls) *)

\* IdRepr is untagged and RequestId transparent: a bare number or string
IdJson(id) == IF id.t = "I32" THEN JNum(id.n) ELSE JStr(id.s)

\* Context is untagged: the fields of the variant's struct, in declaration order
ContextJson(c) ==
  CASE c.variant = "CompletionContext" ->
         JObj(<<Member(K_line, JStr(c.line)), Member(K_prefix, JStr(c.prefix)),
                Member(K_startPoint, JNum(c.start_point)),
                Member(K_boundsStart, JNum(c.bounds_start)),
                Member(K_triggerKind, JNum(c.trigger_kind))>>)
    [] c.variant = "ResolveContext" ->
         JObj(<<Member(K_language_server_id, JNum(c.language_server_id)),
                Member(K_start, JNum(c.start)), Member(K_end, JNum(c.end))>>)
    [] c.variant = "CommonContext" ->
         JObj(<<Member(K_language_server_id, JNum(c.language_server_id))>>)
    [] c.variant = "WorkspaceContext" ->
         JObj(<<Member(K_workspace_root, JStr(c.workspace_root))>>)

\* uri and context are always written (None as null); params is skipped when null
ParamsJson(p) ==
  JObj(<<Member(K_uri, IF p.uri.some THEN JStr(p.uri.v) ELSE JNull),
         Member(K_context, IF p.context.some THEN ContextJson(p.context.v) ELSE JNull)>>
       \o (IF p.params = JNull THEN <<>> ELSE <<Member(K_params, p.params)>>))

\* data is skipped when None
ResponseErrorJson(e) ==
  JObj(<<Member(K_code, JNum(e.code)), Member(K_message, JStr(e.message))>>
       \o (IF e.data.some THEN <<Member(K_data, e.data.v)>> ELSE <<>>))

\* the fields of the Message's struct (Message is untagged); result and error
\* are skipped when None
MessageMembers(m) ==
  CASE m.kind = "Request" ->
         <<Member(K_id, IdJson(m.id)), Member(K_method, JStr(m.method)),
           Member(K_params, ParamsJson(m.params))>>
    [] m.kind = "Response" ->
         <<Member(K_id, IdJson(m.id))>>
         \o (IF m.result.some THEN <<Member(K_result, m.result.v)>> ELSE <<>>)
         \o (IF m.error.some THEN <<Member(K_error, ResponseErrorJson(m.error.v))>> ELSE <<>>)
    [] m.kind = "Notification" ->
         <<Member(K_method, JStr(m.method)), Member(K_params, ParamsJson(m.params))>>

\* struct JsonRpc { jsonrpc: "2.0", #[serde(flatten)] msg }
JsonRpc(m) == JObj(<<Member(K_jsonrpc, JStr(V_2_0))>> \o MessageMembers(m))

-----------------------------------------------------------------------------
(* Deserialize (the derived impls).  A derived struct visitor takes the    *)
(* members of a map in turn: a known key seen twice is an error, an        *)
(* unknown key is ignored, and a key never seen is an error unless the     *)
(* field is an Option (then None) or has a default.                        *)

At(ms, k) == {i \in 1..Len(ms) : ms[i].k = k}
Has(ms, k) == At(ms, k) # {}
Get(ms, k) == ms[CHOOSE i \in At(ms, k) : TRUE].v
Duplicate(ms, keys) == \E k \in keys : Cardinality(At(ms, k)) > 1

Bad == [ok |-> FALSE]
Good(v) == [ok |-> TRUE, v |-> v]

\* a required field of type String
StringField(ms, k) == Has(ms, k) /\ Get(ms, k).t = "str"
\* a required field of type i32
I32Field(ms, k) == Has(ms, k) /\ Get(ms, k).t = "num" /\ FitsI32(Get(ms, k).n)
\* a required field of type usize
UsizeField(ms, k) == Has(ms, k) /\ Get(ms, k).t = "num" /\ FitsUsize(Get(ms, k).n)

\* RequestId: IdRepr::I32 is tried first, then IdRepr::String
DeId(j) ==
  IF j.t = "num" /\ FitsI32(j.n) THEN Good(IdI32(j.n))
  ELSE IF j.t = "str" THEN Good(IdString(j.s))
  ELSE Bad

DeCompletionContext(j) ==
  IF j.t # "obj" THEN Bad
  ELSE IF Duplicate(j.o, {K_line, K_prefix, K_startPoint, K_boundsStart, K_triggerKind})
    THEN Bad
  ELSE IF /\ StringField(j.o, K_line) /\ StringField(j.o, K_prefix)
          /\ I32Field(j.o, K_startPoint) /\ I32Field(j.o, K_boundsStart)
          /\ I32Field(j.o, K_triggerKind)
    THEN Good(CompletionContext(Get(j.o, K_line).s, Get(j.o, K_prefix).s,
                                Get(j.o, K_startPoint).n, Get(j.o, K_boundsStart).n,
                                Get(j.o, K_triggerKind).n))
  ELSE Bad

DeResolveContext(j) ==
  IF j.t # "obj" THEN Bad
  ELSE IF Duplicate(j.o, {K_language_server_id, K_start, K_end}) THEN Bad
  ELSE IF /\ UsizeField(j.o, K_language_server_id)
          /\ I32Field(j.o, K_start) /\ I32Field(j.o, K_end)
    THEN Good(ResolveContext(Get(j.o, K_language_server_id).n,
                             Get(j.o, K_start).n, Get(j.o, K_end).n))
  ELSE Bad

DeCommonContext(j) ==
  IF j.t # "obj" THEN Bad
  ELSE IF Duplicate(j.o, {K_language_server_id}) THEN Bad
  ELSE IF UsizeField(j.o, K_language_server_id)
    THEN Good(CommonContext(Get(j.o, K_language_server_id).n))
  ELSE Bad

DeWorkspaceContext(j) ==
  IF j.t # "obj" THEN Bad
  ELSE IF Duplicate(j.o, {K_workspace_root}) THEN Bad
  ELSE IF StringField(j.o, K_workspace_root)
    THEN Good(WorkspaceContext(Get(j.o, K_workspace_root).s))
  ELSE Bad

\* a faulty Context that lists the loosest struct of a family first
DeContextCommonFirst(j) ==
  IF DeCompletionContext(j).ok THEN DeCompletionContext(j)
  ELSE IF DeCommonContext(j).ok THEN DeCommonContext(j)
  ELSE IF DeResolveContext(j).ok THEN DeResolveContext(j)
  ELSE IF DeWorkspaceContext(j).ok THEN DeWorkspaceContext(j)
  ELSE Bad

\* enum Context, untagged: the variants in declaration order, the first that decodes
DeContext(j) ==
  IF DeCompletionContext(j).ok THEN DeCompletionContext(j)
  ELSE IF DeResolveContext(j).ok THEN DeResolveContext(j)
  ELSE IF DeCommonContext(j).ok THEN DeCommonContext(j)
  ELSE IF DeWorkspaceContext(j).ok THEN DeWorkspaceContext(j)
  ELSE Bad

\* Option<String>: absent or null is None
DeOptString(ms, k) ==
  IF ~Has(ms, k) \/ Get(ms, k) = JNull THEN Good(None)
  ELSE IF Get(ms, k).t = "str" THEN Good(Some(Get(ms, k).s))
  ELSE Bad

\* Option<Context>: absent or null is None
DeOptContext(ms, k) ==
  IF ~Has(ms, k) \/ Get(ms, k) = JNull THEN Good(None)
  ELSE IF DeContext(Get(ms, k)).ok THEN Good(Some(DeContext(Get(ms, k)).v))
  ELSE Bad

\* Option<serde_json::Value>: absent or null is None
DeOptValue(ms, k) ==
  IF ~Has(ms, k) \/ Get(ms, k) = JNull THEN None ELSE Some(Get(ms, k))

\* struct Params; params defaults to Value::Null
DeParams(j) ==
  IF j.t # "obj" THEN Bad
  ELSE IF Duplicate(j.o, {K_uri, K_context, K_params}) THEN Bad
  ELSE IF DeOptString(j.o, K_uri).ok /\ DeOptContext(j.o, K_context).ok
    THEN Good(Params(DeOptString(j.o, K_uri).v, DeOptContext(j.o, K_context).v,
                     IF Has(j.o, K_params) THEN Get(j.o, K_params) ELSE JNull))
  ELSE Bad

DeResponseError(j) ==
  IF j.t # "obj" THEN Bad
  ELSE IF Duplicate(j.o, {K_code, K_message, K_data}) THEN Bad
  ELSE IF I32Field(j.o, K_code) /\ StringField(j.o, K_message)
    THEN Good(ResponseError(Get(j.o, K_code).n, Get(j.o, K_message).s,
                            DeOptValue(j.o, K_data)))
  ELSE Bad

\* Option<ResponseError>: absent or null is None
DeOptResponseError(ms, k) ==
  IF ~Has(ms, k) \/ Get(ms, k) = JNull THEN Good(None)
  ELSE IF DeResponseError(Get(ms, k)).ok THEN Good(Some(DeResponseError(Get(ms, k)).v))
  ELSE Bad

DeRequest(j) ==
  IF j.t # "obj" THEN Bad
  ELSE IF Duplicate(j.o, {K_id, K_method, K_params}) THEN Bad
  ELSE IF /\ Has(j.o, K_id) /\ DeId(Get(j.o, K_id)).ok
          /\ StringField(j.o, K_method)
          /\ Has(j.o, K_params) /\ DeParams(Get(j.o, K_params)).ok
    THEN Good(Request(DeId(Get(j.o, K_id)).v, Get(j.o, K_method).s,
                      DeParams(Get(j.o, K_params)).v))
  ELSE Bad

\* id is required; result and error are Options and may both be absent
DeResponse(j) ==
  IF j.t # "obj" THEN Bad
  ELSE IF Duplicate(j.o, {K_id, K_result, K_error}) THEN Bad
  ELSE IF /\ Has(j.o, K_id) /\ DeId(Get(j.o, K_id)).ok
          /\ DeOptResponseError(j.o, K_error).ok
    THEN Good(Response(DeId(Get(j.o, K_id)).v, DeOptValue(j.o, K_result),
                       DeOptResponseError(j.o, K_error).v))
  ELSE Bad

\* id is no field of Notification: a member named id is an unknown key
DeNotification(j) ==
  IF j.t # "obj" THEN Bad
  ELSE IF Duplicate(j.o, {K_method, K_params}) THEN Bad
  ELSE IF /\ StringField(j.o, K_method)
          /\ Has(j.o, K_params) /\ DeParams(Get(j.o, K_params)).ok
    THEN Good(Notification(Get(j.o, K_method).s, DeParams(Get(j.o, K_params)).v))
  ELSE Bad

\* enum Message, untagged: Request, then Response, then Notification
DeMessage(j) ==
  IF DeRequest(j).ok THEN DeRequest(j)
  ELSE IF DeResponse(j).ok THEN DeResponse(j)
  ELSE IF DeNotification(j).ok THEN DeNotification(j)
  ELSE Bad

-----------------------------------------------------------------------------
(* read_msg_text: the framing reader.  inp is the whole byte stream and p   *)
(* the number of bytes already consumed; the stream ends after inp.         *)

NoMsg == [kind |-> "none"]
\* io::Result<Option<_>>: Ok(None), Err(_), Ok(Some(text)), Ok(Some(msg))
OkNone(p) == [res |-> "eof", why |-> "", text |-> <<>>, msg |-> NoMsg, pos |-> p]
Err(why, p) == [res |-> "err", why |-> why, text |-> <<>>, msg |-> NoMsg, pos |-> p]
OkText(text, p) == [res |-> "text", why |-> "", text |-> text, msg |-> NoMsg, pos |-> p]
OkMsg(m, p) == [res |-> "msg", why |-> "", text |-> <<>>, msg |-> m, pos |-> p]

\* the length of the UTF-8 sequence a lead byte opens, 0 for a byte that opens none
Utf8Width(c) ==
  IF c < 128 THEN 1
  ELSE IF c >= 194 /\ c <= 223 THEN 2
  ELSE IF c >= 224 /\ c <= 239 THEN 3
  ELSE IF c >= 240 /\ c <= 244 THEN 4
  ELSE 0

IsContinuation(c) == c >= 128 /\ c <= 191

\* str::from_utf8 succeeds on b: every lead byte has its continuation bytes and
\* every continuation byte belongs to the lead byte before it
IsUtf8(b) ==
  \A i \in 1..Len(b) :
    IF IsContinuation(b[i])
    THEN \E j \in (i - 3)..(i - 1) :
           /\ j >= 1
           /\ Utf8Width(b[j]) > i - j
           /\ \A k \in (j + 1)..(i - 1) : IsContinuation(b[k])
    ELSE /\ Utf8Width(b[i]) > 0
         /\ i + Utf8Width(b[i]) - 1 <= Len(b)
         /\ \A k \in (i + 1)..(i + Utf8Width(b[i]) - 1) : IsContinuation(b[k])

\* read_line stops after the first LF at or after index i, or at the end of the stream
FindLf(inp, i) ==
  LET lfs == {k \in i..Len(inp) : inp[k] = 10}
  IN IF lfs = {} THEN Len(inp) ELSE CHOOSE k \in lfs : \A l \in lfs : k <= l

EndsWith(b, suffix) ==
  Len(b) >= Len(suffix) /\ SubSeq(b, Len(b) - Len(suffix) + 1, Len(b)) = suffix

\* the first index at or after i where sep occurs in b, or 0
FindSep(b, i, sep) ==
  LET at == {k \in i..Len(b) : HasAt(b, k, sep)}
  IN IF at = {} THEN 0 ELSE CHOOSE k \in at : \A l \in at : k <= l

\* buf.splitn(2, sep): one part when sep does not occur, else the parts around
\* its first occurrence
SplitN2(b, sep) ==
  LET i == FindSep(b, 1, sep)
  IN IF i = 0 THEN <<b>>
     ELSE <<SubSeq(b, 1, i - 1), SubSeq(b, i + Len(sep), Len(b))>>

\* a faulty comparison of header names that minds the case
EqExact(a, b) == a = b

ToAsciiLower(c) == IF c >= 65 /\ c <= 90 THEN c + 32 ELSE c

EqIgnoreAsciiCase(a, b) ==
  Len(a) = Len(b) /\ \A i \in 1..Len(a) : ToAsciiLower(a[i]) = ToAsciiLower(b[i])

RECURSIVE StripZeros(_)
StripZeros(d) == IF Len(d) > 1 /\ d[1] = 48 THEN StripZeros(Tail(d)) ELSE d

\* str::parse::<usize>: an optional '+', then one or more digits, no overflow;
\* the result is the canonical numeral
ParseUsize(s) ==
  IF s = <<>> \/ s = <<43>> \/ s = <<45>> THEN Bad
  ELSE LET ds == IF s[1] = 43 THEN Tail(s) ELSE s
       IN IF \E i \in 1..Len(ds) : ~IsDigit(ds[i]) THEN Bad
          ELSE IF NumeralLeq(StripZeros(ds), UsizeMaxDigits) THEN Good(StripZeros(ds))
          ELSE Bad

RECURSIVE NatOf(_)
\* the number a numeral of at most 9 digits denotes
NatOf(d) == IF d = <<>> THEN 0 ELSE NatOf(SubSeq(d, 1, Len(d) - 1)) * 10 + (d[Len(d)] - 48)

\* the size d exceeds r, the number of bytes left in a modelled stream
Exceeds(d, r) == Len(d) > 9 \/ NatOf(d) > r

RECURSIVE HeaderLoop(_, _, _)
\* the loop of read_msg_text: one iteration per header line; size is the
\* Content-Length seen so far
HeaderLoop(inp, p, size) ==
  LET e == FindLf(inp, p + 1)
      buf == SubSeq(inp, p + 1, e)
  IN IF ~IsUtf8(buf) THEN Err("invalid utf-8", e)
     ELSE IF Len(buf) = 0 THEN OkNone(p)
     ELSE IF ~EndsWith(buf, CRLF) THEN Err("malformed header", e)
     ELSE LET line == SubSeq(buf, 1, Len(buf) - 2)
              parts == SplitN2(line, ColonSpace)
          IN IF line = <<>> THEN [res |-> "break", size |-> size, pos |-> e]
             ELSE IF Len(parts) < 2 THEN Err("malformed header", e)
             ELSE IF EqIgnoreAsciiCase(parts[1], ContentLength)
               THEN IF ParseUsize(parts[2]).ok
                      THEN HeaderLoop(inp, e, Some(ParseUsize(parts[2]).v))
                      ELSE Err("invalid Content-Length", e)
             ELSE HeaderLoop(inp, e, size)

\* a faulty payload read that takes two bytes past the announced size
ReadPayloadKeepsLine(inp, p, size) ==
  IF Len(size) > 9 \/ NatOf(size) + 2 > Len(inp) - p
    THEN Err("unexpected end of stream", Len(inp))
  ELSE LET buf == SubSeq(inp, p + 1, p + NatOf(size) + 2)
       IN IF IsUtf8(buf) THEN OkText(buf, p + NatOf(size) + 2)
          ELSE Err("invalid utf-8", p + NatOf(size) + 2)

\* read_exact of size bytes after the header block, then String::from_utf8
ReadPayload(inp, p, size) ==
  IF Exceeds(size, Len(inp) - p) THEN Err("unexpected end of stream", Len(inp))
  ELSE LET buf == SubSeq(inp, p + 1, p + NatOf(size))
       IN IF IsUtf8(buf) THEN OkText(buf, p + NatOf(size))
          ELSE Err("invalid utf-8", p + NatOf(size))

\* a faulty reader that takes a missing Content-Length for an empty payload
ReadMsgTextDefaultZero(inp, p) ==
  LET h == HeaderLoop(inp, p, None)
  IN IF h.res # "break" THEN h
     ELSE IF ~h.size.some THEN ReadPayload(inp, h.pos, <<48>>)
     ELSE ReadPayload(inp, h.pos, h.size.v)

ReadMsgText(inp, p) ==
  LET h == HeaderLoop(inp, p, None)
  IN IF h.res # "break" THEN h
     ELSE IF ~h.size.some THEN Err("no Content-Length", h.pos)
     ELSE ReadPayload(inp, h.pos, h.size.v)

\* Message::_read
MessageRead(inp, p) ==
  LET t == ReadMsgText(inp, p)
  IN IF t.res # "text" THEN t
     ELSE IF ~FromStr(t.text).ok THEN Err("json syntax", t.pos)
     ELSE IF ~DeMessage(FromStr(t.text).v).ok THEN Err("json data", t.pos)
     ELSE OkMsg(DeMessage(FromStr(t.text).v).v, t.pos)

-----------------------------------------------------------------------------
(* write_msg_text and Message::_write.  The sink is an io::Write: bytes it  *)
(* accepts wait in obuf and reach the wire when it is flushed.  fault says  *)
(* where the sink fails in this call, if at all: in the header write, in    *)
(* the payload write (after cut bytes were accepted) or in the flush.       *)

\* a faulty header that counts the characters of the payload, not its bytes
FrameHeaderChars(msg) ==
  ContentLength \o ColonSpace
  \o DecNat(Cardinality({i \in 1..Len(msg) : ~IsContinuation(msg[i])})) \o CRLF \o CRLF

\* the header of a frame: "Content-Length: {}\r\n\r\n" of msg.len(), the byte length
FrameHeader(msg) == ContentLength \o ColonSpace \o DecNat(Len(msg)) \o CRLF \o CRLF

\* the sink after write_msg_text(out, msg), and whether the call returned Ok
WriteMsgText(buf, out, msg, fault) ==
  CASE fault.at = "header" ->
         [ok |-> FALSE, obuf |-> buf \o SubSeq(FrameHeader(msg), 1, fault.cut), wire |-> out]
    [] fault.at = "payload" ->
         [ok |-> FALSE, obuf |-> buf \o FrameHeader(msg) \o SubSeq(msg, 1, fault.cut),
          wire |-> out]
    [] fault.at = "flush" ->
         [ok |-> FALSE, obuf |-> buf \o FrameHeader(msg) \o msg, wire |-> out]
    [] OTHER ->
         [ok |-> TRUE, obuf |-> <<>>, wire |-> out \o buf \o FrameHeader(msg) \o msg]

\* a faulty write that frames the JSON text whatever the transcoder returns
WritePayloadJsonOnly(m, tr) == JsonText(JsonRpc(m))

\* the payload Message::_write frames: the transcoder's bytes when it returns
\* Ok, the JSON text of the envelope when it returns Err
WritePayload(m, tr) == IF tr.ok THEN tr.v ELSE JsonText(JsonRpc(m))

MessageWrite(buf, out, m, tr, fault) == WriteMsgText(buf, out, WritePayload(m, tr), fault)

-----------------------------------------------------------------------------
(* Request::extract and Notification::extract.  ty names the type P the     *)
(* caller asks for: "i32", "String", "unit" or "Value".                     *)

\* serde_json::from_value::<P>
FromValue(ty, j) ==
  CASE ty = "i32"    -> IF j.t = "num" /\ FitsI32(j.n) THEN Good(j.n) ELSE Bad
    [] ty = "String" -> IF j.t = "str" THEN Good(j.s) ELSE Bad
    [] ty = "unit"   -> IF j = JNull THEN Good(<<>>) ELSE Bad
    [] OTHER         -> Good(j)

\* ExtractError::MethodMismatch(self) and ExtractError::JsonError { method, error }
MethodMismatch(self) == [kind |-> "MethodMismatch", value |-> self]
JsonError(method) == [kind |-> "JsonError", method |-> method]

\* a faulty extract that moves the payload out before it compares the method
RequestExtractTakesParams(self, method, ty) ==
  IF self.method # method
    THEN MethodMismatch([self EXCEPT !.params = Params(self.params.uri, self.params.context, JNull)])
  ELSE IF FromValue(ty, self.params.params).ok
    THEN [kind |-> "Ok", id |-> self.id, params |-> FromValue(ty, self.params.params).v]
  ELSE JsonError(self.method)

RequestExtract(self, method, ty) ==
  IF self.method # method THEN MethodMismatch(self)
  ELSE IF FromValue(ty, self.params.params).ok
    THEN [kind |-> "Ok", id |-> self.id, params |-> FromValue(ty, self.params.params).v]
  ELSE JsonError(self.method)

NotificationExtract(self, method, ty) ==
  IF self.method # method THEN MethodMismatch(self)
  ELSE IF FromValue(ty, self.params.params).ok
    THEN [kind |-> "Ok", params |-> FromValue(ty, self.params.params).v]
  ELSE JsonError(self.method)

-----------------------------------------------------------------------------
(* Bounds and the inputs the model draws from *)

MaxWrites == 2     \* Message::write calls on one sink
MaxChunks == 4     \* chunks a peer puts on the wire
MaxExtracts == 2   \* extract calls a dispatcher chains on one message

N(k) == Num(FALSE, DecNat(k))
Neg(k) == Num(TRUE, DecNat(k))

\* "a", "b", "c", "ping", "exit", "pong", "no", "f.rs", "x" and the two-byte "é"
S_a == <<97>>
S_b == <<98>>
S_c == <<99>>
S_ping == <<112, 105, 110, 103>>
S_exit == <<101, 120, 105, 116>>
S_pong == <<112, 111, 110, 103>>
S_no == <<110, 111>>
S_f_rs == <<102, 46, 114, 115>>
S_x == <<120>>
S_e_acute == <<195, 169>>

\* the Messages a caller writes
Msgs ==
  << Request(IdI32(N(1)), S_a, Params(None, None, JNull)),
     Request(IdString(S_e_acute), S_ping,
             Params(Some(S_f_rs), Some(ResolveContext(N(1), N(2), Neg(3))),
                    JObj(<<Member(S_x, JBool(TRUE))>>))),
     Response(IdI32(N(1)), Some(JStr(S_pong)), None),
     Response(IdI32(Neg(7)), Some(JNull), None),
     Response(IdString(S_a), None, Some(ResponseError(Neg(32601), S_no, None))),
     Notification(S_exit, Params(None, Some(CommonContext(N(0))), JNum(N(5)))) >>

\* what bytecode::generate_bytecode_repl may return: Err, or Ok of the text "#[é]"
TranscoderResults == << Bad, Good(<<35, 91, 195, 169, 93>>) >>

\* where the sink may fail while msg is written
NoFault == [at |-> "none", cut |-> 0]
Faults(msg) ==
  { [at |-> "header", cut |-> 0],
    [at |-> "header", cut |-> Len(ContentLength \o ColonSpace)],
    [at |-> "payload", cut |-> Len(msg) \div 2],
    [at |-> "flush", cut |-> 0] }

\* what a peer may put on the wire: header lines, good and bad, and a payload
Chunks ==
  << ContentLength \o ColonSpace \o <<50>> \o CRLF,                 \* Content-Length: 2
     <<99, 111, 110, 116, 101, 110, 116, 45, 76, 69, 78, 71, 84, 72>>
       \o ColonSpace \o <<43, 56>> \o CRLF,                         \* content-LENGTH: +8
     ContentLength \o ColonSpace \o <<45, 49>> \o CRLF,             \* Content-Length: -1
     <<88, 45>> \o ContentLength \o ColonSpace \o <<51>> \o CRLF,   \* X-Content-Length: 3
     ContentLength \o <<58, 56>> \o CRLF,                           \* Content-Length:8
     <<88, 58, 32, 49, 10>>,                                        \* X: 1 and a bare LF
     CRLF,
     <<123>> \o QuoteStr(K_id) \o <<58, 49, 125>> >>                \* {"id":1}

\* the members a JSON object on the decoder bench is built from: the fields of
\* the Message structs, then the fields of the Context structs, each with
\* values of the right and of a wrong type
Fields ==
  << [k |-> K_jsonrpc, vals |-> <<JStr(V_2_0)>>],
     [k |-> K_id, vals |-> <<JNum(N(1)), JStr(S_a), JBool(TRUE),
                            JNum(Num(FALSE, I32MinDigits))>>],
     [k |-> K_method, vals |-> <<JStr(S_ping), JNum(N(5))>>],
     [k |-> K_params, vals |-> <<JObj(<<>>),
                                JObj(<<Member(K_uri, JStr(S_f_rs)),
                                       Member(K_context, JObj(<<Member(K_workspace_root, JStr(S_a))>>)),
                                       Member(K_params, JNum(N(5)))>>),
                                JNum(N(1)),
                                JObj(<<Member(K_context, JObj(<<>>))>>)>>],
     [k |-> K_result, vals |-> <<JNull, JStr(S_pong)>>],
     [k |-> K_error, vals |-> <<JObj(<<Member(K_code, JNum(Neg(1))), Member(K_message, JStr(S_no))>>),
                               JObj(<<>>)>>],
     [k |-> K_line, vals |-> <<JStr(S_a), JNum(N(1))>>],
     [k |-> K_prefix, vals |-> <<JStr(S_b)>>],
     [k |-> K_startPoint, vals |-> <<JNum(N(1)), JStr(S_a)>>],
     [k |-> K_boundsStart, vals |-> <<JNum(N(2))>>],
     [k |-> K_triggerKind, vals |-> <<JNum(N(1)), JBool(TRUE)>>],
     [k |-> K_language_server_id, vals |-> <<JNum(N(3)), JNum(Neg(1))>>],
     [k |-> K_start, vals |-> <<JNum(N(4)), JStr(S_a)>>],
     [k |-> K_end, vals |-> <<JNum(N(9))>>],
     [k |-> K_workspace_root, vals |-> <<JStr(S_x), JNum(N(1))>> ] >>

FieldIndex(k) == CHOOSE i \in 1..Len(Fields) : Fields[i].k = k
IsMessageField(f) ==
  Fields[f].k \in {K_jsonrpc, K_id, K_method, K_params, K_result, K_error}

\* what a dispatcher may hold and ask for
MethodNames == <<S_a, S_b, S_c>>
TargetTypes == <<"i32", "String", "unit", "Value">>
SubjectIds == <<IdI32(N(1)), IdString(S_x)>>
SubjectParams ==
  << Params(None, None, JNull),
     Params(Some(S_f_rs), Some(CommonContext(N(3))), JNum(N(5))),
     Params(None, Some(WorkspaceContext(S_x)), JStr(S_pong)),
     Params(Some(S_a), None, JObj(<<Member(S_x, JNull)>>)) >>

-----------------------------------------------------------------------------
Init ==
  /\ obuf = <<>>
  /\ wire = <<>>
  /\ closed = FALSE
  /\ pos = 0
  /\ wlog = <<>>
  /\ rlog = <<>>
  /\ fed = <<>>
  /\ doc = <<>>
  /\ dres = [kind |-> "none"]
  /\ subject = NoMsg
  /\ xlog = <<>>

\* Message::write(m, sink), the transcoder returning tr and the sink failing as
\* fault says.  A writer that got an error does not write again.
Write(m, tr, fault) ==
  /\ ~closed
  /\ Len(wlog) < MaxWrites
  /\ \A k \in 1..Len(wlog) : wlog[k].ok
  /\ LET r == MessageWrite(obuf, wire, m, tr, fault)
     IN /\ obuf' = r.obuf
        /\ wire' = r.wire
        /\ wlog' = Append(wlog, [msg |-> m, tr |-> tr, fault |-> fault, ok |-> r.ok,
                                 at |-> Len(wire) + Len(obuf)])
  /\ UNCHANGED <<closed, pos, rlog, fed, doc, dres, subject, xlog>>

WriteOk ==
  \E i \in 1..Len(Msgs), t \in 1..Len(TranscoderResults) :
    Write(Msgs[i], TranscoderResults[t], NoFault)

WriteFault ==
  \E i \in 1..Len(Msgs), t \in 1..Len(TranscoderResults) :
    \E f \in Faults(WritePayload(Msgs[i], TranscoderResults[t])) :
      Write(Msgs[i], TranscoderResults[t], f)

\* a peer puts chunk c on the wire
Feed(c) ==
  /\ ~closed
  /\ Len(fed) < MaxChunks
  /\ wire' = wire \o Chunks[c]
  /\ fed' = Append(fed, c)
  /\ UNCHANGED <<obuf, closed, pos, wlog, rlog, doc, dres, subject, xlog>>

\* the writing end is closed; what the sink still holds reaches the wire
Close ==
  /\ ~closed
  /\ closed' = TRUE
  /\ wire' = wire \o obuf
  /\ obuf' = <<>>
  /\ UNCHANGED <<pos, wlog, rlog, fed, doc, dres, subject, xlog>>

\* Message::read on the stream, which is complete.  A reader that got an error
\* or the end of the stream does not read again.
Read ==
  /\ closed
  /\ IF rlog = <<>> THEN TRUE ELSE rlog[Len(rlog)].res = "msg"
  /\ LET r == MessageRead(wire, pos)
     IN /\ pos' = r.pos
        /\ rlog' = Append(rlog, [from |-> pos, to |-> r.pos, res |-> r.res,
                                 why |-> r.why, msg |-> r.msg])
  /\ UNCHANGED <<obuf, wire, closed, wlog, fed, doc, dres, subject, xlog>>

\* the decoder bench: field f with its v-th value joins the object, fields in
\* their order in Fields, Message fields and Context fields apart
AddMember(f, v) ==
  /\ dres.kind = "none"
  /\ IF doc = <<>> THEN TRUE
     ELSE /\ FieldIndex(doc[Len(doc)].k) < f
          /\ IsMessageField(FieldIndex(doc[1].k)) = IsMessageField(f)
  /\ doc' = Append(doc, Member(Fields[f].k, Fields[f].vals[v]))
  /\ UNCHANGED <<obuf, wire, closed, pos, wlog, rlog, fed, dres, subject, xlog>>

\* Message::deserialize of the object
DecodeMessage ==
  /\ dres.kind = "none"
  /\ IF doc = <<>> THEN TRUE ELSE IsMessageField(FieldIndex(doc[1].k))
  /\ dres' = [kind |-> "Message", out |-> DeMessage(JObj(doc))]
  /\ UNCHANGED <<obuf, wire, closed, pos, wlog, rlog, fed, doc, subject, xlog>>

\* Context::deserialize of the object
DecodeContext ==
  /\ dres.kind = "none"
  /\ IF doc = <<>> THEN TRUE ELSE ~IsMessageField(FieldIndex(doc[1].k))
  /\ dres' = [kind |-> "Context", out |-> DeContext(JObj(doc))]
  /\ UNCHANGED <<obuf, wire, closed, pos, wlog, rlog, fed, doc, subject, xlog>>

\* the dispatcher receives a Request or a Notification
Receive(m) ==
  /\ subject = NoMsg
  /\ xlog = <<>>
  /\ subject' = m
  /\ UNCHANGED <<obuf, wire, closed, pos, wlog, rlog, fed, doc, dres, xlog>>

ReceiveRequest ==
  \E i \in 1..Len(SubjectIds), n \in 1..Len(MethodNames), p \in 1..Len(SubjectParams) :
    Receive(Request(SubjectIds[i], MethodNames[n], SubjectParams[p]))

ReceiveNotification ==
  \E n \in 1..Len(MethodNames), p \in 1..Len(SubjectParams) :
    Receive(Notification(MethodNames[n], SubjectParams[p]))

\* the dispatcher calls extract::<ty>(method) on what it holds; extract takes
\* the message by value, and a MethodMismatch hands it back
Extract(method, ty) ==
  /\ subject # NoMsg
  /\ Len(xlog) < MaxExtracts
  /\ LET out == IF subject.kind = "Request" THEN RequestExtract(subject, method, ty)
                ELSE NotificationExtract(subject, method, ty)
     IN /\ xlog' = Append(xlog, [self |-> subject, method |-> method, ty |-> ty, out |-> out])
        /\ subject' = IF out.kind = "MethodMismatch" THEN out.value ELSE NoMsg
  /\ UNCHANGED <<obuf, wire, closed, pos, wlog, rlog, fed, doc, dres>>

ExtractAny ==
  \E n \in 1..Len(MethodNames), t \in 1..Len(TargetTypes) :
    Extract(MethodNames[n], TargetTypes[t])

\* a writer and a reader on the two ends of one stream
Next == WriteOk \/ WriteFault \/ Close \/ Read
Spec == Init /\ [][Next]_vars

\* a peer's bytes on the stream, and a reader
NextRead == (\E c \in 1..Len(Chunks) : Feed(c)) \/ Close \/ Read
SpecRead == Init /\ [][NextRead]_vars

\* the decoder bench
NextDecode ==
  \/ \E f \in 1..Len(Fields) : \E v \in 1..Len(Fields[f].vals) : AddMember(f, v)
  \/ DecodeMessage
  \/ DecodeContext
SpecDecode == Init /\ [][NextDecode]_vars

\* the dispatcher
NextExtract == ReceiveRequest \/ ReceiveNotification \/ ExtractAny
SpecExtract == Init /\ [][NextExtract]_vars
-----------------------------------------------------------------------------
(* What the claims are stated with.  None of this models the program: it   *)
(* says what a frame on the wire is and reads the logs of the calls.       *)

\* a frame: the header "Content-Length: N\r\n\r\n" with N the number of payload
\* bytes, then the payload
WireHeader(n) ==
  <<67, 111, 110, 116, 101, 110, 116, 45, 76, 101, 110, 103, 116, 104, 58, 32>>
  \o DecNat(n) \o <<13, 10, 13, 10>>
WireFrame(payload) == WireHeader(Len(payload)) \o payload

\* the number of characters of a UTF-8 text
CharCount(b) == Cardinality({i \in 1..Len(b) : b[i] < 128 \/ b[i] > 191})

\* the payload write call w has to frame
ExpectedPayload(w) == IF w.tr.ok THEN w.tr.v ELSE JsonText(JsonRpc(w.msg))

RECURSIVE FramesOf(_)
\* the frames of the write calls ws, one after the other
FramesOf(ws) ==
  IF ws = <<>> THEN <<>>
  ELSE FramesOf(SubSeq(ws, 1, Len(ws) - 1)) \o WireFrame(ExpectedPayload(ws[Len(ws)]))

\* the offset in the stream where the k-th frame ends
FrameEnd(k) == Len(FramesOf(SubSeq(wlog, 1, k)))

\* everything the sink accepted, in order, and what it accepted in call k
SinkBytes == wire \o obuf
CallBytes(k) ==
  SubSeq(SinkBytes, wlog[k].at + 1,
         IF k < Len(wlog) THEN wlog[k + 1].at ELSE Len(SinkBytes))

AllWritesOk(k) == \A j \in 1..k : wlog[j].ok
IsProperPrefix(a, b) == Len(a) < Len(b) /\ a = SubSeq(b, 1, Len(a))

\* C1: every Message written with the transcoder failing is read back equal to
\* itself: the k-th read of a stream of such frames returns the k-th Message
\* written, same variant and same field values.
C1_RoundTrip ==
  \A k \in 1..Len(rlog) :
    (k <= Len(wlog) /\ \A j \in 1..k : wlog[j].ok /\ ~wlog[j].tr.ok)
      => rlog[k].res = "msg" /\ rlog[k].msg = wlog[k].msg

\* C3: the k-th read of a stream that starts with k well-formed frames starts
\* where frame k starts and ends where frame k ends, whatever follows it; it
\* returns the Message the frame's payload holds; and after k frames and
\* nothing else the (k+1)-th read returns the clean end-of-stream.
C3_ExactConsumption ==
  \A k \in 1..Len(rlog) :
    /\ (k <= Len(wlog) /\ AllWritesOk(k)) =>
         /\ rlog[k].from = FrameEnd(k - 1)
         /\ rlog[k].to = FrameEnd(k)
         /\ rlog[k].res # "eof"
         /\ ~wlog[k].tr.ok =>
              /\ rlog[k].res = "msg"
              /\ rlog[k].msg = DeMessage(JsonRpc(wlog[k].msg)).v
    /\ (k = Len(wlog) + 1 /\ AllWritesOk(Len(wlog))) =>
         /\ rlog[k].res = "eof"
         /\ rlog[k].from = Len(wire)
         /\ rlog[k].to = Len(wire)

\* two frames were read, one Message each, frames or a torn frame following the
\* first, and the third read met the end of the stream
C3_Witness ==
  /\ Len(wlog) = 2 /\ Len(rlog) = 3
  /\ rlog[1].res = "msg" /\ rlog[2].res = "msg" /\ rlog[3].res = "eof"
  /\ rlog[1].to < rlog[2].to

\* C6: a write call frames the transcoder's bytes when the transcoder returns
\* them and the JSON text of the envelope when it fails, one payload per call,
\* and returns an error only when the sink fails.
C6_WriteFallback ==
  \A k \in 1..Len(wlog) :
    /\ wlog[k].ok <=> wlog[k].fault.at = "none"
    /\ wlog[k].ok => CallBytes(k) = WireFrame(ExpectedPayload(wlog[k]))

\* a write call whose transcoder failed returned Ok
C6_Witness ==
  \E k \in 1..Len(wlog) :
    /\ ~wlog[k].tr.ok /\ wlog[k].ok
    /\ \E j \in 1..Len(wlog) : wlog[j].tr.ok /\ wlog[j].ok

\* C7: a successful write call leaves on the sink the header with the
\* payload's byte length, then the payload, and nothing unflushed: after
\* successful calls the stream is their frames in call order; a call that
\* fails in the header write puts no payload byte on the sink.
C7_WriteFraming ==
  /\ AllWritesOk(Len(wlog)) =>
       /\ obuf = <<>>
       /\ wire = FramesOf(wlog)
  /\ \A k \in 1..Len(wlog) :
       /\ wlog[k].ok =>
            \E n \in 0..Len(CallBytes(k)) :
              CallBytes(k) = WireFrame(SubSeq(CallBytes(k), Len(CallBytes(k)) - n + 1,
                                              Len(CallBytes(k))))
       /\ wlog[k].fault.at = "header" =>
            IsProperPrefix(CallBytes(k), WireHeader(Len(ExpectedPayload(wlog[k]))))

\* two successful calls, one of them with a payload whose byte length differs
\* from its character count
C7_Witness ==
  /\ Len(wlog) = 2 /\ AllWritesOk(2) /\ ~closed
  /\ \E k \in 1..2 : CharCount(ExpectedPayload(wlog[k])) < Len(ExpectedPayload(wlog[k]))
-----------------------------------------------------------------------------
(* The lines of the stream, for the claims about the reader.  A line ends  *)
(* after a LF, or at the end of the stream when its LF is missing.  The    *)
(* header block a read starts at offset p runs up to the first blank line  *)
(* (a line that is exactly CR LF), or to the end of the stream without one.*)

MinOf(S) == CHOOSE x \in S : \A y \in S : x <= y
MaxOf(S) == CHOOSE x \in S : \A y \in S : x >= y

LineEnds(p) == {i \in (p + 1)..Len(wire) : wire[i] = 10 \/ i = Len(wire)}
LineStart(p, e) ==
  LET before == {i \in LineEnds(p) : i < e}
  IN IF before = {} THEN p + 1 ELSE MaxOf(before) + 1
LineAt(p, e) == SubSeq(wire, LineStart(p, e), e)

BlankEnds(p) == {e \in LineEnds(p) : LineAt(p, e) = <<13, 10>>}
HasBlank(p) == BlankEnds(p) # {}
BlockEnd(p) == MinOf(BlankEnds(p))
HeaderLineEnds(p) == {e \in LineEnds(p) : HasBlank(p) => e < BlockEnd(p)}

HasCrLf(l) == Len(l) >= 2 /\ l[Len(l) - 1] = 13 /\ l[Len(l)] = 10
SepAt(l) == {i \in 1..(Len(l) - 3) : l[i] = 58 /\ l[i + 1] = 32}
HasSep(l) == SepAt(l) # {}
NameOf(l) == SubSeq(l, 1, MinOf(SepAt(l)) - 1)
ValueOf(l) == SubSeq(l, MinOf(SepAt(l)) + 2, Len(l) - 2)

\* "content-length"
LowerName == <<99, 111, 110, 116, 101, 110, 116, 45, 108, 101, 110, 103, 116, 104>>
Fold(c) == IF c \in 65..90 THEN c + 32 ELSE c
IsLengthName(name) ==
  Len(name) = Len(LowerName) /\ \A i \in 1..Len(name) : Fold(name[i]) = LowerName[i]

\* a non-negative integer in decimal (the streams hold no value too large for usize)
IsNonNegInt(v) ==
  LET d == IF v # <<>> /\ v[1] = 43 THEN Tail(v) ELSE v
  IN d # <<>> /\ \A i \in 1..Len(d) : d[i] \in 48..57
LengthOf(v) == NatOf(StripZeros(IF v[1] = 43 THEN Tail(v) ELSE v))

IsHeaderLine(l) == HasCrLf(l) /\ HasSep(l)
IsLengthLine(l) == IsHeaderLine(l) /\ IsLengthName(NameOf(l))
BadLine(l) == ~IsHeaderLine(l) \/ (IsLengthLine(l) /\ ~IsNonNegInt(ValueOf(l)))

BadLineEnds(p) == {e \in HeaderLineEnds(p) : BadLine(LineAt(p, e))}
LengthLineEnds(p) == {e \in HeaderLineEnds(p) : IsLengthLine(LineAt(p, e))}

\* C4: a read returns the clean end-of-stream result exactly when the stream
\* is at its end before any byte of the frame was read; every other way the
\* stream ends during a read is an error.
C4_CleanEof ==
  \A k \in 1..Len(rlog) : rlog[k].res = "eof" <=> rlog[k].from = Len(wire)

\* C5: a read whose header block holds a line without CR LF, a line without
\* ": " or a Content-Length that is no non-negative integer returns an error
\* and stops at the end of the first such line; a read whose header block
\* reaches its blank line without a Content-Length returns an error and stops
\* at the end of the blank line.  No payload byte is read, and the error is
\* the framing error of that line, not one of the payload.
C5_FramingErrors ==
  \A k \in 1..Len(rlog) :
    LET p == rlog[k].from
    IN /\ BadLineEnds(p) # {} =>
            /\ rlog[k].res = "err" /\ rlog[k].to = MinOf(BadLineEnds(p))
            /\ rlog[k].why = IF IsHeaderLine(LineAt(p, MinOf(BadLineEnds(p))))
                               THEN "invalid Content-Length" ELSE "malformed header"
       /\ (BadLineEnds(p) = {} /\ HasBlank(p) /\ LengthLineEnds(p) = {}) =>
            /\ rlog[k].res = "err" /\ rlog[k].to = BlockEnd(p)
            /\ rlog[k].why = "no Content-Length"

\* a frame was read, and the next read found a header block that ends without
\* a Content-Length or holds a malformed line
C5_Witness ==
  /\ Len(rlog) = 2 /\ rlog[1].res = "msg" /\ rlog[2].res = "err"
  /\ BadLineEnds(rlog[2].from) # {} \/ LengthLineEnds(rlog[2].from) = {}

RECURSIVE WithoutOthers(_, _)
\* the stream from offset s on, without the header lines of the block read at
\* offset p that are no Content-Length lines
WithoutOthers(p, s) ==
  IF s >= Len(wire) THEN <<>>
  ELSE LET e == MinOf({i \in LineEnds(p) : i > s})
       IN IF e \notin HeaderLineEnds(p) THEN SubSeq(wire, s + 1, Len(wire))
          ELSE (IF IsLengthLine(LineAt(p, e)) THEN LineAt(p, e) ELSE <<>>)
               \o WithoutOthers(p, e)

\* C10: with a header block of well-formed name: value lines, a read returns
\* what it returns on the same stream without the headers of other names: the
\* same Message or error and, unless a Content-Length value stopped it, the
\* same bytes left unread; and when the block is complete the payload is as
\* long as its last Content-Length header says, whatever the case of the
\* header's name.
C10_OnlyContentLength ==
  \A k \in 1..Len(rlog) :
    LET p == rlog[k].from
        bare == WithoutOthers(p, p)
        r == MessageRead(bare, 0)
    IN (\A e \in HeaderLineEnds(p) : IsHeaderLine(LineAt(p, e))) =>
         /\ r.res = rlog[k].res /\ r.why = rlog[k].why /\ r.msg = rlog[k].msg
         /\ BadLineEnds(p) = {} =>
              SubSeq(bare, r.pos + 1, Len(bare)) = SubSeq(wire, rlog[k].to + 1, Len(wire))
         /\ (/\ HasBlank(p) /\ LengthLineEnds(p) # {} /\ BadLineEnds(p) = {}
             /\ LengthOf(ValueOf(LineAt(p, MaxOf(LengthLineEnds(p))))) <= Len(wire) - BlockEnd(p))
            => /\ rlog[k].res # "eof"
               /\ rlog[k].to = BlockEnd(p)
                    + LengthOf(ValueOf(LineAt(p, MaxOf(LengthLineEnds(p)))))

\* a Message was read from a frame whose header block holds a header of
\* another name and a Content-Length header in another case
C10_Witness ==
  \E k \in 1..Len(rlog) :
    /\ rlog[k].res = "msg"
    /\ \E e \in HeaderLineEnds(rlog[k].from) : ~IsLengthLine(LineAt(rlog[k].from, e))
    /\ \E e \in LengthLineEnds(rlog[k].from) :
         NameOf(LineAt(rlog[k].from, e)) # ContentLength
-----------------------------------------------------------------------------
(* The claims about decoding and extraction *)

IdDecodes(ms) == Has(ms, K_id) /\ DeId(Get(ms, K_id)).ok
MethodDecodes(ms) == Has(ms, K_method) /\ Get(ms, K_method).t = "str"
ParamsDecode(ms) == Has(ms, K_params) /\ DeParams(Get(ms, K_params)).ok

DecodedAs(kind) == dres.out.ok /\ dres.out.v.kind = kind

\* C2: an object is a Request exactly when id, method and params all decode;
\* it is a Response only if it is no Request, id decodes and result or error
\* is present; it is a Notification only if it is neither, method and params
\* decode and it has no id; and an object that is none of the three is
\* rejected.
C2_Discrimination ==
  dres.kind = "Message" =>
    LET isRequest == IdDecodes(doc) /\ MethodDecodes(doc) /\ ParamsDecode(doc)
        mayBeResponse == IdDecodes(doc) /\ (Has(doc, K_result) \/ Has(doc, K_error))
        mayBeNotification == MethodDecodes(doc) /\ ParamsDecode(doc) /\ ~Has(doc, K_id)
    IN /\ DecodedAs("Request") <=> isRequest
       /\ DecodedAs("Response") => ~isRequest /\ mayBeResponse
       /\ DecodedAs("Notification") => ~isRequest /\ mayBeNotification
       /\ (~isRequest /\ ~mayBeResponse /\ ~mayBeNotification) => ~dres.out.ok

IsString(ms, k) == Has(ms, k) /\ Get(ms, k).t = "str"
IsI32(ms, k) == Has(ms, k) /\ Get(ms, k).t = "num" /\ FitsI32(Get(ms, k).n)
IsUnsigned(ms, k) == Has(ms, k) /\ Get(ms, k).t = "num" /\ FitsUsize(Get(ms, k).n)

FullCompletion(ms) ==
  /\ IsString(ms, K_line) /\ IsString(ms, K_prefix)
  /\ IsI32(ms, K_startPoint) /\ IsI32(ms, K_boundsStart) /\ IsI32(ms, K_triggerKind)
FullResolve(ms) == IsUnsigned(ms, K_language_server_id) /\ IsI32(ms, K_start) /\ IsI32(ms, K_end)
FullCommon(ms) == IsUnsigned(ms, K_language_server_id)
FullWorkspace(ms) == IsString(ms, K_workspace_root)

MostSpecific(ms) ==
  IF FullCompletion(ms) THEN "CompletionContext"
  ELSE IF FullResolve(ms) THEN "ResolveContext"
  ELSE IF FullCommon(ms) THEN "CommonContext"
  ELSE IF FullWorkspace(ms) THEN "WorkspaceContext"
  ELSE "none"

\* C8: a context object decodes as the first of CompletionContext,
\* ResolveContext, CommonContext, WorkspaceContext whose fields are all present
\* and of the right type, with the values the object gives them, and fails to
\* decode when it matches none.
C8_ContextMostSpecificFirst ==
  dres.kind = "Context" =>
    IF MostSpecific(doc) = "none" THEN ~dres.out.ok
    ELSE /\ dres.out.ok
         /\ dres.out.v.variant = MostSpecific(doc)
         /\ \A i \in 1..Len(ContextJson(dres.out.v).o) :
              \E j \in 1..Len(doc) : doc[j] = ContextJson(dres.out.v).o[i]

\* an object with language-server-id, start and end, and no CompletionContext in
\* it, was decoded as a ResolveContext
C8_Witness ==
  /\ dres.kind = "Context"
  /\ FullResolve(doc) /\ FullCommon(doc) /\ ~FullCompletion(doc)
  /\ dres.out.ok /\ dres.out.v.variant = "ResolveContext"

\* the payload of a message has the type ty, and v is its value
IsPayload(ty, j, v) ==
  CASE ty = "i32"    -> j = JNum(v)
    [] ty = "String" -> j = JStr(v)
    [] ty = "unit"   -> j = JNull
    [] OTHER         -> j = v

\* C9: extract with a method name other than the message's returns
\* MethodMismatch carrying the message equal in every field, so every call of a
\* chain sees the message first received; extract with the message's method
\* name returns the decoded payload, with the id of a Request, or a JsonError
\* carrying the method name.
C9_ExtractPreserves ==
  \A k \in 1..Len(xlog) :
    /\ xlog[k].self = xlog[1].self
    /\ IF xlog[k].method # xlog[k].self.method
       THEN /\ xlog[k].out.kind = "MethodMismatch"
            /\ xlog[k].out.value = xlog[k].self
            /\ k = Len(xlog) => subject = xlog[1].self
       ELSE /\ xlog[k].out.kind \in {"Ok", "JsonError"}
            /\ xlog[k].out.kind = "JsonError" => xlog[k].out.method = xlog[k].self.method
            /\ xlog[k].out.kind = "Ok" =>
                 /\ IsPayload(xlog[k].ty, xlog[k].self.params.params, xlog[k].out.params)
                 /\ xlog[k].self.kind = "Request" => xlog[k].out.id = xlog[k].self.id

\* a Request with uri, context and payload went through an extract with a wrong
\* method name, and the next extract, with the right one, decoded its payload
C9_Witness ==
  /\ Len(xlog) = 2
  /\ xlog[1].self.kind = "Request"
  /\ xlog[1].self.params.uri.some /\ xlog[1].self.params.context.some
  /\ xlog[1].out.kind = "MethodMismatch"
  /\ xlog[2].out.kind = "Ok" /\ xlog[2].ty = "i32"
====
